---------------------------- MODULE Spec2Model ----------------------------
(***************************************************************************)
(* Session authentication and syllabus parsing of the coursera downloader. *)
(*                                                                         *)
(* The model covers cookies.py (load, read, write, read_for_course,        *)
(* get_login_cookies, get_course_cookies, has_course_cookies,              *)
(* validate_session) and CourseraDownloader.get_course_cookies of          *)
(* coursera.py.  The remote service is the environment: every HTTP         *)
(* exchange draws its status and its Set-Cookie set from small sets.       *)
(*                                                                         *)
(* A cookie jar is a set of cookie records in which (domain, path, name)   *)
(* is a key, as in http.cookiejar.  Cookie values are non-empty tokens,    *)
(* and no cookie expires while a call runs.  A position (pc) names the     *)
(* request the code sends next; each action runs the code from one request *)
(* to the next one or to the return.                                       *)
(*                                                                         *)
(* The second part covers get_response, get_page, get_sections,            *)
(* extract_sections and _get_hidden_resources of coursera.py and clean_url *)
(* of utils.py.  A string is a sequence of tokens, so that stripping,      *)
(* prefixing and searching are computed.  A syllabus page is the sequence  *)
(* of its section header markers, each with the lecture list items of the  *)
(* list next to it.  coursera.py imports its sibling modules by their     *)
(* bare names, so it runs under Python 2, where the name bound by          *)
(* "except ... as e" outlives the handler: "raise e" after the loop of     *)
(* get_response raises the last error.                                     *)
(*                                                                         *)
(* The third part calls load, read, read_for_course, write and             *)
(* validate_session of cookies.py directly, as test_cookies.py does, on    *)
(* files that may be missing, unreadable or hold an unparsable line.       *)
(***************************************************************************)
EXTENDS Naturals, Integers, Sequences, FiniteSets, TLC

VARIABLES
    cookies,          \* content of the file self.cookies names (NoFile: None)
    cache_dir,        \* self.cache_dir is set
    disk_cache,       \* content of <cache_dir>/cookies_<username>.txt
    session_cookies,  \* self.session.cookies
    pc,               \* position inside CourseraDownloader.get_course_cookies
    course,           \* argument of the running / last call
    calls,            \* number of calls of get_course_cookies so far
    log,              \* requests sent by the running / last call, in order
    r,                \* the last response received by the running / last call
    url,              \* URL of the last request of the running / last call
    cookie_jar,       \* local cookie_jar of CourseraDownloader.get_course_cookies
    jar_at_call,      \* session jar when the call was entered
    jar_at_validate,  \* session jar when validate_session was entered
    validate_ret,     \* what cookies.validate_session returned
    login_ret,        \* what cookies.get_login_cookies returned
    course_ret,       \* what cookies.get_course_cookies returned
    result,           \* what CourseraDownloader.get_course_cookies returned
    syllabus,         \* the page the service serves at the lecture URL
    ppc,              \* position inside CourseraDownloader.get_sections
    fetching,         \* the page get_response is fetching
    attempts,         \* outcome of each request of the running get_response
    err,              \* error of the last failed attempt of get_response
    hpage,            \* the secondary page last received
    si,               \* index of the current section header
    li,               \* index of the current lecture list item
    sections,         \* local sections of extract_sections
    section,          \* local section of extract_sections
    lecture,          \* local lecture of extract_sections
    resources_before, \* lecture['resources'] when _get_hidden_resources began
    ret,              \* what get_sections returned or raised
    hidden_calls,     \* the list items _get_hidden_resources was called for
    tfile,            \* the file a direct call of cookies.py is given
    tcourse,          \* the course a direct call of cookies.py is given
    tstatus,          \* status of the response to validate_session's HEAD
    tpc,              \* the last direct call of cookies.py
    tjar,             \* the jar the last direct call returned or left
    tret,             \* what the last direct call returned or raised
    tprev,            \* the jar the direct call before it returned or left
    tprevret,         \* what the direct call before it returned
    tsaved            \* the file written by a direct call of cookies.write

\* The variables of the syllabus parser.
pvars == << syllabus, ppc, fetching, attempts, err, hpage, si, li, sections,
            section, lecture, resources_before, ret, hidden_calls >>

\* The variables of the direct calls of cookies.py.
tvars == << tfile, tcourse, tstatus, tpc, tjar, tret, tprev, tprevret,
            tsaved >>

\* The variables of CourseraDownloader.get_course_cookies.
avars == << cookies, cache_dir, disk_cache, session_cookies, pc, course,
            calls, log, r, url, cookie_jar, jar_at_call, jar_at_validate,
            validate_ret, login_ret, course_ret, result >>

vars == << avars, pvars, tvars >>

-----------------------------------------------------------------------------
(* Bounds *)

\* Calls of CourseraDownloader.get_course_cookies on one downloader.
MaxCalls == 2

\* Cookie lines of a cookie file (the header line not counted).
MaxLines == 2

\* Section header markers of a syllabus page.
MaxSections == 2

\* Lecture list items of a syllabus page, all sections together.
MaxItems == 2

\* Resource links of a lecture list item.
MaxLinks == 2

\* Subtitle tracks of a secondary lecture page.
MaxTracks == 2

-----------------------------------------------------------------------------
(* Data *)

Courses == {"c1", "c2"}

CoursePath(c) == "/" \o c

PLATFORM_DOMAIN == ".coursera.org"
CLASS_DOMAIN == "class.coursera.org"
ACCOUNTS_DOMAIN == "accounts.coursera.org"

\* Status codes a response may carry: 200, another 2xx, a redirect, an error.
Statuses == {200, 204, 302, 404}

\* A string is a sequence of tokens; a URL template of define.py is such a
\* sequence.  The templates mark the place of the course with "%s".
COURSE_URL == << "https://", "class.coursera.org", "/", "%s" >>
LECTURE_URL == COURSE_URL \o << "/lecture/index" >>
AUTH_URL ==
    COURSE_URL \o << "/auth/auth_redirector", "?type=login&subtype=normal" >>
LOGIN_URL == << "https://", "accounts.coursera.org", "/api/v1/login" >>

\* str.format(course=crs): every replacement field {course} of the template
\* becomes crs, every other token stays as it is.
format(tpl, crs) ==
    [i \in 1..Len(tpl) |-> IF tpl[i] = "{course}" THEN crs ELSE tpl[i]]

Cookie(d, p, n, v, e) ==
    [domain |-> d, path |-> p, name |-> n, value |-> v, expires |-> e]

Key(c) == << c.domain, c.path, c.name >>

\* One line of a cookie file: the Netscape header or a cookie line.  The
\* expiration field is "future", "past" or "" (none: a session cookie).
HeaderLine ==
    [kind |-> "header", domain |-> "", path |-> "", name |-> "",
     value |-> "", expires |-> ""]

CookieLine(d, p, n, e) ==
    [kind |-> "cookie", domain |-> d, path |-> p, name |-> n,
     value |-> "f", expires |-> e]

LineUniverse ==
    << CookieLine(PLATFORM_DOMAIN, "/", "CAUTH", "future"),
       CookieLine(PLATFORM_DOMAIN, "/c1", "CAUTH", "future"),
       CookieLine(CLASS_DOMAIN, "/c1", "csrf_token", "future"),
       CookieLine(CLASS_DOMAIN, "/c2", "csrf_token", "future"),
       CookieLine(CLASS_DOMAIN, "/", "CAUTH", "future"),
       CookieLine("www.example.org", "/c1", "csrf_token", "future"),
       CookieLine(PLATFORM_DOMAIN, "/", "maestro_login", "past"),
       CookieLine(CLASS_DOMAIN, "/c1", "session", "") >>

RECURSIVE SortedSeq(_)
SortedSeq(S) ==
    IF S = {} THEN << >>
    ELSE LET m == CHOOSE x \in S : \A y \in S : x <= y
         IN  << m >> \o SortedSeq(S \ {m})

\* A line that is neither a comment nor a cookie line.
GarbageLine ==
    [kind |-> "garbage", domain |-> "", path |-> "", name |-> "",
     value |-> "", expires |-> ""]

\* A file: whether it exists, whether it can be opened for reading, and its
\* lines.
NoFile == [exists |-> FALSE, readable |-> FALSE, lines |-> << >>]

FileOf(hdr, S) ==
    LET idx == SortedSeq(S)
    IN  [exists |-> TRUE, readable |-> TRUE,
         lines  |-> (IF hdr THEN << HeaderLine >> ELSE << >>)
                    \o [i \in 1..Len(idx) |-> LineUniverse[idx[i]]]]

\* The cookie files of the model: an optional header line, then at most
\* MaxLines cookie lines of LineUniverse.
Files ==
    { FileOf(hdr, S) : hdr \in BOOLEAN,
                       S \in { T \in SUBSET (1..Len(LineUniverse)) :
                                   Cardinality(T) <= MaxLines } }

\* The file f with the line l put in as its k-th line.
InsertLine(f, k, l) ==
    [f EXCEPT !.lines = SubSeq(@, 1, k - 1) \o << l >> \o SubSeq(@, k, Len(@))]

\* The files cookies.py may be handed: none, the cookie files, a cookie file
\* that cannot be opened, and the cookie files with one garbage line.
IoFiles ==
    {NoFile} \cup Files
      \cup { [f EXCEPT !.readable = FALSE] : f \in {FileOf(TRUE, {1, 3})} }
      \cup UNION { { InsertLine(f, k, GarbageLine) :
                        k \in 1..(Len(f.lines) + 1) } : f \in Files }

-----------------------------------------------------------------------------
(* Cookie jars *)

set_cookie(jar, c) == { d \in jar : Key(d) # Key(c) } \cup { c }

RECURSIVE update(_, _)
update(jar, other) ==
    IF other = {} THEN jar
    ELSE LET c == CHOOSE x \in other : TRUE
         IN  update(set_cookie(jar, c), other \ {c})

\* Mutant of clear_domain: clear() without arguments empties the jar.
clear_domain_all(jar, d) == {}

clear_domain(jar, d) == { c \in jar : c.domain # d }

\* Mutant of clear_path: the cookies of every path of the domain are
\* cleared.
clear_path_whole_domain(jar, d, p) == { c \in jar : c.domain # d }

\* Mutant of clear_path: the course cookies are not cleared.
clear_path_skipped(jar, d, p) == jar

clear_path(jar, d, p) == { c \in jar : ~(c.domain = d /\ c.path = p) }

\* RequestsCookieJar.get(name, domain=d): "found", "missing", or "conflict"
\* when several cookies of that name and domain exist (CookieConflictError).
get_in_domain(jar, n, d) ==
    LET hits == { c \in jar : c.name = n /\ c.domain = d }
    IN  IF hits = {} THEN "missing"
        ELSE IF Cardinality(hits) > 1 THEN "conflict"
        ELSE "found"

\* name in RequestsCookieJar: a cookie of that name under any domain and path.
name_in_jar(jar, n) == \E c \in jar : c.name = n


-----------------------------------------------------------------------------
(* cookies.py: cookie files *)

LineToCookie(l) == Cookie(l.domain, l.path, l.name, l.value, l.expires)

CookieToLine(c) ==
    [kind |-> "cookie", domain |-> c.domain, path |-> c.path,
     name |-> c.name, value |-> c.value, expires |-> c.expires]

\* Mutant of is_expired: no cookie counts as expired.
is_expired_never(l) == FALSE

\* Cookie.is_expired(now)
is_expired(l) == l.expires = "past"

\* MozillaCookieJar._really_load(f, ..., ignore_discard=False,
\* ignore_expires=False) after the magic line: comment lines are skipped,
\* cookies without expiration (discard) and expired cookies are not stored.
RECURSIVE really_load(_, _)
really_load(lines, cj) ==
    IF lines = << >> THEN cj
    ELSE LET l == Head(lines)
         IN  IF l.kind = "header" THEN really_load(Tail(lines), cj)
             ELSE IF l.expires = "" THEN really_load(Tail(lines), cj)
             ELSE IF is_expired(l) THEN really_load(Tail(lines), cj)
             ELSE really_load(Tail(lines), set_cookie(cj, LineToCookie(l)))

\* load: the header is written in front of the file's text with no line
\* break, so the first line read, which _really_load takes as the magic
\* line, is the header followed by the file's own first line.
load(file) ==
    really_load(IF file.lines = << >> THEN << >> ELSE Tail(file.lines), {})

\* The exception load raises, "none" when it returns: open() raises IOError
\* for a file that is missing or cannot be opened, and _really_load raises
\* LoadError, a subclass of IOError, at a line after the magic line that is
\* neither a comment nor a cookie line.
load_error(file) ==
    IF ~file.exists THEN "IOError: no such file"
    ELSE IF ~file.readable THEN "IOError: permission denied"
    ELSE IF \E i \in 2..Len(file.lines) : file.lines[i].kind = "garbage"
    THEN "LoadError"
    ELSE "none"

\* Mutant of caught_by_read: only the error of a missing file is caught.
caught_by_read_missing_only(e) == e = "IOError: no such file"

\* read: "except IOError: pass".
caught_by_read(e) ==
    e \in {"IOError: no such file", "IOError: permission denied", "LoadError"}

\* The exception read raises, "none" when it returns.
read_error(file) ==
    IF caught_by_read(load_error(file)) THEN "none" ELSE load_error(file)

\* read: the cookies of load are put into a RequestsCookieJar; a caught
\* error leaves the jar empty.
read(file) ==
    IF load_error(file) = "none" THEN update({}, load(file)) ELSE {}

RECURSIVE SeqOfSet(_)
SeqOfSet(S) ==
    IF S = {} THEN << >>
    ELSE LET c == CHOOSE x \in S : TRUE
         IN  << CookieToLine(c) >> \o SeqOfSet(S \ {c})

\* Mutant of write: the file is written without the header line.
write_no_header(cj) ==
    [exists |-> TRUE, readable |-> TRUE,
     lines  |-> SeqOfSet({ c \in cj : c.expires = "future" })]

\* write: MozillaCookieJar.save(ignore_discard=False, ignore_expires=False)
\* writes the header and one line per cookie that has an expiration in the
\* future.
write(cj) ==
    [exists |-> TRUE, readable |-> TRUE,
     lines  |-> << HeaderLine >>
                \o SeqOfSet({ c \in cj : c.expires = "future" })]

\* Mutant of cookies_filter: the path of a class.coursera.org cookie is not
\* compared.
cookies_filter_any_path(c, path) ==
    \/ c.domain = PLATFORM_DOMAIN
    \/ c.domain = CLASS_DOMAIN

cookies_filter(c, path) ==
    \/ c.domain = PLATFORM_DOMAIN
    \/ (c.domain = CLASS_DOMAIN /\ c.path = path)

read_for_course(file, crs) ==
    update({}, { c \in load(file) : cookies_filter(c, CoursePath(crs)) })

has_course_cookies(cj, crs) ==
    \E c \in cj : /\ c.name = "csrf_token"
                  /\ c.domain = CLASS_DOMAIN
                  /\ c.path = CoursePath(crs)

-----------------------------------------------------------------------------
(* The remote service *)

\* Mutant of raise_for_status: only server errors are treated as errors.
raise_for_status_5xx(st) == st >= 500 /\ st <= 599

\* requests' raise_for_status raises HTTPError for the statuses 400..599.
raise_for_status(st) == st >= 400 /\ st <= 599

\* Mutant of status_is_valid: any 2xx status is accepted.
status_is_valid_2xx(st) == st >= 200 /\ st <= 299

\* validate_session accepts status 200 only.
status_is_valid(st) == st = 200

LandingSetCookies ==
    { {}, { Cookie(CLASS_DOMAIN, "/", "csrf_token", "s", "") } }

PostSetCookies ==
    { {},
      { Cookie(PLATFORM_DOMAIN, "/", "CAUTH", "s", "future") },
      { Cookie(ACCOUNTS_DOMAIN, "/", "CAUTH", "s", "future") } }

AuthSetCookies(crs) ==
    { {},
      { Cookie(CLASS_DOMAIN, CoursePath(crs), "csrf_token", "s", "future") },
      { Cookie(CLASS_DOMAIN, CoursePath(crs), "session", "s", "") },
      { Cookie(CLASS_DOMAIN, "/", "csrf_token", "s", "future") } }

\* A response: the request it answers, its status, the cookies it sets.
Response(op, st, cs) == [op |-> op, status |-> st, cookies |-> cs]

NoResponse == Response("none", 0, {})

Sent(op) == \E i \in 1..Len(log) : log[i] = op

-----------------------------------------------------------------------------
(* Control decisions of the code *)

\* Mutant of uses_cookies_file: the supplied cookie file is ignored.
uses_cookies_file_never(file) == FALSE

\* coursera.py: the cookie file branch is taken when self.cookies is set.
uses_cookies_file(file) == file.exists

\* validate_session sends the HEAD request: the jar holds the course cookie.
validate_session_sends(jar, crs) == has_course_cookies(jar, crs)

\* What validate_session returns; st is the status of the HEAD response.
validate_session_ret(jar, crs, st) ==
    IF ~has_course_cookies(jar, crs) THEN "False"
    ELSE IF status_is_valid(st) THEN "True"
    ELSE "False"

\* Mutant of validate_session_jar: the cookies of class.coursera.org are
\* cleared whatever the response.
validate_session_jar_clears_class(jar, crs, st) ==
    clear_domain(jar, CLASS_DOMAIN)

\* The session jar validate_session leaves.
validate_session_jar(jar, crs, st) ==
    IF ~has_course_cookies(jar, crs) THEN jar
    ELSE IF status_is_valid(st) THEN jar
    ELSE clear_domain(jar, PLATFORM_DOMAIN)

\* Mutant of cached_cookies_file: the file is written without a cache
\* directory as well.
cached_cookies_file_always(cdir, jar, old) == write(jar)

\* CourseraDownloader.get_course_cookies, "if self.cache_dir:
\* cookies.write(self.session.cookies, cached_cookies_file)": the cache file
\* after it.
cached_cookies_file(cdir, jar, old) == IF cdir THEN write(jar) ELSE old

\* Mutant of after_validate: the early return is missing.
after_validate_no_return(valid) == "get_course_cookies"

\* coursera.py: "if cookies.validate_session(...): return True".
after_validate(valid) == IF valid THEN "done" ELSE "get_course_cookies"

\* Mutant of already_logged_in: CAUTH is looked up under any domain.
already_logged_in_any_domain(jar) == name_in_jar(jar, "CAUTH")

\* cookies.get_course_cookies: "if session.cookies.get('CAUTH',
\* domain='.coursera.org')": the login is skipped.
already_logged_in(jar) == get_in_domain(jar, "CAUTH", PLATFORM_DOMAIN) = "found"

\* cookies.get_login_cookies: "if 'CAUTH' not in session.cookies".
login_failed(jar) == ~name_in_jar(jar, "CAUTH")

-----------------------------------------------------------------------------
(* Attribute values and URLs of a page *)

\* The value of an attribute of an element: None when the element lacks the
\* attribute, a string (a sequence of tokens) otherwise.  The token " " is
\* white space.
None == [none |-> TRUE, text |-> << >>]
Str(t) == [none |-> FALSE, text |-> t]

RECURSIVE lstrip(_)
lstrip(t) == IF t # << >> /\ Head(t) = " " THEN lstrip(Tail(t)) ELSE t

RECURSIVE rstrip(_)
rstrip(t) ==
    IF t # << >> /\ t[Len(t)] = " "
    THEN rstrip(SubSeq(t, 1, Len(t) - 1)) ELSE t

\* str.strip()
strip(t) == rstrip(lstrip(t))

\* urlparse(url).scheme: the scheme the string begins with, "" when it begins
\* with none.  A scheme holds letters, digits, "+", "-" and "." only.
scheme(t) ==
    IF t # << >> /\ Head(t) \in {"http://", "https://"} THEN Head(t) ELSE ""

\* utils.clean_url
clean_url(u) ==
    IF u.none THEN None
    ELSE LET t == strip(u.text)
         IN  IF t # << >> /\ scheme(t) = ""
             THEN Str(<< "http://" >> \o t) ELSE Str(t)

\* "sub in t" of Python for a token sub.
contains(t, sub) == \E i \in 1..Len(t) : t[i] = sub

\* str.find(sub): -1 when sub does not occur in t, else the number of tokens
\* before its first occurrence, which is 0 exactly when the string begins
\* with sub.
find(t, sub) ==
    IF contains(t, sub)
    THEN (CHOOSE i \in 1..Len(t) :
              t[i] = sub /\ \A j \in 1..(i - 1) : t[j] # sub) - 1
    ELSE -1

\* utils.resource_filename_from_url: the file name is taken from the last
\* segment of the URL's path.
resource_filename_from_url(t) == << t[Len(t)] >>

\* os.path.splitext followed by lstrip('.'), on the file names of the model.
ext_of(filename) ==
    CASE filename = << "slides.pdf" >> -> "pdf"
      [] filename = << "video.mp4" >>  -> "mp4"
      [] OTHER                         -> ""

\* The href values of the resource links of the model.
Hrefs ==
    { None,
      Str(<< " " >>),
      Str(<< "https://", "cloudfront.net", "/", "lecture" >>),
      Str(<< "https://", "www.example.org", "/", "forum" >>),
      Str(<< "https://", "www.example.org", "/", "cloudfront.net", "/",
             "forum" >>),
      Str(<< " ", "www.example.org", "/", "slides.pdf", " " >>),
      Str(<< "https://", "class.coursera.org", "/", "video.mp4" >>),
      Str(<< "https://", "class.coursera.org", "/", "source_videos", "/",
             "video.mp4" >>),
      Str(<< "source_videos", "/", "video.mp4" >>) }

PdfLink == Str(<< "https://", "class.coursera.org", "/", "slides.pdf" >>)
Mp4Link == Str(<< "https://", "class.coursera.org", "/", "video.mp4" >>)

-----------------------------------------------------------------------------
(* Syllabus pages and secondary lecture pages *)

\* A resource of a lecture: url, name and filename are strings (sequences of
\* tokens), ext is one token.  The links of the model carry no title.
Resource(u, n, f, e) == [url |-> u, name |-> n, filename |-> f, ext |-> e]

\* Mutant of is_source_video: the marker is never looked for.
is_source_video_never(t) == FALSE

\* extract_sections: "resource['url'].find('source_videos') > 0".
is_source_video(t) == find(t, "source_videos") > 0

\* extract_sections: "resource['ext'] or 'cloudfront.net' in resource_url".
keep_resource(e, t) == e # "" \/ contains(t, "cloudfront.net")

\* extract_sections, the loop over resource_links: the resources appended to
\* lecture['resources'], in the order of the links.
RECURSIVE direct_resources(_)
direct_resources(links) ==
    IF links = << >> THEN << >>
    ELSE LET resource_url == clean_url(Head(links))
             filename == resource_filename_from_url(resource_url.text)
             rest == direct_resources(Tail(links))
         IN  IF resource_url.none \/ resource_url.text = << >> THEN rest
             ELSE IF is_source_video(resource_url.text) THEN rest
             ELSE IF keep_resource(ext_of(filename), resource_url.text)
             THEN << Resource(resource_url.text, << >>, filename,
                              ext_of(filename)) >> \o rest
             ELSE rest

\* "any(r['ext'] == 'mp4' for r in lecture['resources'])"
has_mp4(resources) == \E i \in 1..Len(resources) : resources[i].ext = "mp4"

\* A lecture list item (li) of the syllabus page: a says whether it holds an
\* anchor, links are the href values of the links of its resource container
\* (none when it has no container), modal says whether its lecture link
\* carries the attribute data-modal-iframe.
Item(a, n, links, modal) ==
    [a |-> a, name |-> n, links |-> links, modal |-> modal]

\* A section header marker (div of class course-item-list-header): h3 says
\* whether an h3 heading follows it; items are the list items of the list
\* next to it.
Marker(h3, n, items) == [h3 |-> h3, name |-> n, items |-> items]

\* Section headings of the model.
Headings == {"Week 1", "Week 2"}

\* The lecture items of the outline pages: slides only and no modal window;
\* a direct video; slides and a modal window; no anchor at all.
OutlineItems ==
    { Item(TRUE, "Notes", << PdfLink >>, FALSE),
      Item(TRUE, "Video", << Mp4Link >>, TRUE),
      Item(TRUE, "Preview", << PdfLink >>, TRUE),
      Item(FALSE, "", << >>, FALSE) }

SeqsUpTo(S, n) == UNION { [1..k -> S] : k \in 0..n }

\* The markers with at most n items; a marker without heading has none.
Markers(n) ==
    { Marker(TRUE, h, its) : h \in Headings, its \in SeqsUpTo(OutlineItems, n) }
        \cup { Marker(FALSE, "", << >>) }

\* The pages with at most s markers and n items.
RECURSIVE PagesWith(_, _)
PagesWith(s, n) ==
    IF s = 0 THEN { << >> }
    ELSE { << >> } \cup
         UNION { { << m >> \o rest : rest \in PagesWith(s - 1, n - Len(m.items)) }
                 : m \in Markers(n) }

\* The parse ends at the first marker without heading and at the first list
\* item without anchor, so such an element is the last one of its page.
EndsAtOffender(page) ==
    \A i \in 1..Len(page) :
        /\ i < Len(page) => page[i].h3
        /\ \A j \in 1..Len(page[i].items) :
               (i < Len(page) \/ j < Len(page[i].items)) => page[i].items[j].a

OutlinePages ==
    { page \in PagesWith(MaxSections, MaxItems) : EndsAtOffender(page) }

\* Pages of one section and one lecture, with every list of resource links.
LinkPages ==
    { << Marker(TRUE, "Week 1",
                << Item(TRUE, "Lecture", links, modal) >>) >> :
          links \in SeqsUpTo(Hrefs, MaxLinks), modal \in BOOLEAN }

Pages == OutlinePages \cup LinkPages

\* A subtitle track of a secondary page.
Track(lang, src) == [srclang |-> lang, src |-> src]

\* The i-th track of a secondary page of the model.
TrackAt(i) ==
    IF i % 2 = 1
    THEN Track(<< "en" >>, Str(<< "https://", "class.coursera.org", "/", "en.srt" >>))
    ELSE Track(<< " ", "fr" >>, Str(<< "class.coursera.org", "/", "fr.srt" >>))

\* A secondary lecture page: video is the src of its first source element of
\* type video/mp4 (hasvideo says whether there is one), tracks are its track
\* elements of kind subtitles, in document order.
SecondaryPage(hasvideo, src, k) ==
    [hasvideo |-> hasvideo, src |-> src, tracks |-> [i \in 1..k |-> TrackAt(i)]]

SecondaryPages ==
    { SecondaryPage(FALSE, None, k) : k \in 0..MaxTracks }
      \cup { SecondaryPage(TRUE, Str(<< "https://", "cloudfront.net", "/",
                                        "video" >>), k) : k \in 0..MaxTracks }
      \cup { SecondaryPage(TRUE, Str(<< " " >>), 0) }

NoPage == SecondaryPage(FALSE, None, 0)

\* Mutant of subtitle_resources: the tracks are taken in reverse order.
RECURSIVE subtitle_resources_reversed(_)
subtitle_resources_reversed(tracks) ==
    IF tracks = << >> THEN << >>
    ELSE LET lang == strip(Head(tracks).srclang)
         IN  subtitle_resources_reversed(Tail(tracks))
             \o << Resource(clean_url(Head(tracks).src).text,
                            << "Subtitles " >> \o lang,
                            << "Subtitles " >> \o lang \o << ".srt" >>,
                            "srt") >>

\* _get_hidden_resources, the loop over subtitle_tracks.
RECURSIVE subtitle_resources(_)
subtitle_resources(tracks) ==
    IF tracks = << >> THEN << >>
    ELSE LET lang == strip(Head(tracks).srclang)
         IN  << Resource(clean_url(Head(tracks).src).text,
                         << "Subtitles " >> \o lang,
                         << "Subtitles " >> \o lang \o << ".srt" >>,
                         "srt") >>
             \o subtitle_resources(Tail(tracks))

\* Mutant of hidden_resources: the tracks are read without a video too.
hidden_resources_tracks_always(lec, page) ==
    (IF page.hasvideo
     THEN << Resource(clean_url(page.src).text, << lec.name >>,
                      << "video.mp4" >>, "mp4") >>
     ELSE << >>) \o subtitle_resources(page.tracks)

\* _get_hidden_resources, after the page was fetched: the resources appended
\* to lecture['resources'].
hidden_resources(lec, page) ==
    IF ~page.hasvideo THEN << >>
    ELSE << Resource(clean_url(page.src).text, << lec.name >>,
                     << "video.mp4" >>, "mp4") >>
         \o subtitle_resources(page.tracks)

-----------------------------------------------------------------------------
(* Init *)

\* CourseraDownloader.__init__: no call of get_course_cookies was made yet.
DownloaderIdle ==
    /\ session_cookies = {}
    /\ pc = "idle"
    /\ course = "c1"
    /\ calls = 0
    /\ log = << >>
    /\ r = NoResponse
    /\ url = << >>
    /\ cookie_jar = {}
    /\ jar_at_call = {}
    /\ jar_at_validate = {}
    /\ validate_ret = "none"
    /\ login_ret = "none"
    /\ course_ret = "none"
    /\ result = "none"

NoSection == [name |-> "", lectures |-> << >>]
NoLecture == [name |-> "", resources |-> << >>]

\* No call of get_sections was made yet.
ParserIdle ==
    /\ ppc = "idle"
    /\ fetching = "none"
    /\ attempts = << >>
    /\ err = "none"
    /\ hpage = NoPage
    /\ si = 0
    /\ li = 0
    /\ sections = << >>
    /\ section = NoSection
    /\ lecture = NoLecture
    /\ resources_before = << >>
    /\ ret = "none"
    /\ hidden_calls = << >>

\* No direct call of cookies.py was made.
NoDirectCall ==
    /\ tcourse = "c1"
    /\ tstatus = 0
    /\ tpc = "idle"
    /\ tjar = {}
    /\ tret = "none"
    /\ tprev = {}
    /\ tprevret = "none"
    /\ tsaved = NoFile

Init ==
    /\ cookies \in {NoFile} \cup Files
    /\ cache_dir \in BOOLEAN
    /\ disk_cache \in {NoFile} \cup Files
    /\ (disk_cache.exists => (cache_dir /\ ~cookies.exists))
    /\ DownloaderIdle
    /\ syllabus = << >>
    /\ ParserIdle
    /\ tfile = NoFile
    /\ NoDirectCall

config == << cookies, cache_dir >>

-----------------------------------------------------------------------------
(* CourseraDownloader.get_course_cookies, entry *)

DlGetCourseCookies(crs) ==
    /\ pc \in {"idle", "done"}
    /\ ppc = "idle"
    /\ calls < MaxCalls
    /\ calls' = calls + 1
    /\ course' = crs
    /\ log' = << >>
    /\ r' = NoResponse
    /\ url' = << >>
    /\ jar_at_call' = session_cookies
    /\ jar_at_validate' = {}
    /\ validate_ret' = "none"
    /\ login_ret' = "none"
    /\ course_ret' = "none"
    /\ IF uses_cookies_file(cookies)
       THEN /\ cookie_jar' = read_for_course(cookies, crs)
            /\ session_cookies' = update(session_cookies, cookie_jar')
            /\ result' = "True"
            /\ pc' = "done"
       ELSE IF cache_dir
       THEN /\ cookie_jar' = read(disk_cache)
            /\ session_cookies' = update(session_cookies, cookie_jar')
            /\ result' = "none"
            /\ pc' = "validate_session"
       ELSE /\ cookie_jar' = {}
            /\ session_cookies' = session_cookies
            /\ result' = "none"
            /\ pc' = "get_course_cookies"
    /\ UNCHANGED << pvars, tvars >>
    /\ UNCHANGED << config, disk_cache >>

(* cookies.validate_session, and the caller's return when it holds.  The  *)
(* response to the HEAD request is taken to set no cookie: the jar changes *)
(* here only by what validate_session itself clears.                       *)

ValidateSession ==
    /\ pc = "validate_session"
    /\ jar_at_validate' = session_cookies
    /\ \E st \in Statuses :
         /\ validate_ret' = validate_session_ret(session_cookies, course, st)
         /\ session_cookies' =
                validate_session_jar(session_cookies, course, st)
         /\ IF validate_session_sends(session_cookies, course)
            THEN /\ url' = format(COURSE_URL, course) \o << "/class" >>
                 /\ log' = Append(log, "HEAD")
                 /\ r' = Response("HEAD", st, {})
            ELSE UNCHANGED << log, r, url >>
    /\ pc' = after_validate(validate_ret' = "True")
    /\ result' = IF pc' = "done" THEN "True" ELSE "none"
    /\ UNCHANGED << pvars, tvars >>
    /\ UNCHANGED << config, disk_cache, course, calls, cookie_jar,
                    jar_at_call, login_ret, course_ret >>

(* cookies.get_course_cookies: the check for the platform-wide cookie *)

GetCourseCookiesBegin ==
    /\ pc = "get_course_cookies"
    /\ IF get_in_domain(session_cookies, "CAUTH", PLATFORM_DOMAIN) = "conflict"
       THEN /\ course_ret' = "raised"
            /\ result' = "raised"
            /\ pc' = "done"
       ELSE /\ UNCHANGED << course_ret, result >>
            /\ pc' = IF already_logged_in(session_cookies)
                     THEN "auth_get" ELSE "login_landing"
    /\ UNCHANGED << pvars, tvars >>
    /\ UNCHANGED << config, disk_cache, session_cookies, course, calls, log,
                    r, url, cookie_jar, jar_at_call, jar_at_validate, validate_ret,
                    login_ret >>

(* cookies.get_login_cookies: the landing page fetch *)

GetLoginCookiesLanding ==
    /\ pc = "login_landing"
    /\ session_cookies' = clear_domain(session_cookies, PLATFORM_DOMAIN)
    /\ \E st \in Statuses, cs \in LandingSetCookies :
         /\ url' = format(COURSE_URL, course)
         /\ log' = Append(log, "LANDING")
         /\ r' = Response("LANDING", st, cs)
         /\ IF raise_for_status(st) \/ ~name_in_jar(cs, "csrf_token")
            THEN /\ login_ret' = "False"
                 /\ course_ret' = "False"
                 /\ result' = "False"
                 /\ pc' = "done"
            ELSE /\ UNCHANGED << login_ret, course_ret, result >>
                 /\ pc' = "login_post"
    /\ UNCHANGED << pvars, tvars >>
    /\ UNCHANGED << config, disk_cache, course, calls, cookie_jar,
                    jar_at_call, jar_at_validate, validate_ret >>

(* cookies.get_login_cookies: the credentials POST *)

GetLoginCookiesPost ==
    /\ pc = "login_post"
    /\ \E st \in Statuses, cs \in PostSetCookies :
         /\ url' = LOGIN_URL
         /\ log' = Append(log, "POST")
         /\ r' = Response("POST", st, cs)
         /\ session_cookies' = update(session_cookies, cs)
         /\ IF raise_for_status(st)
            THEN /\ login_ret' = "False"
                 /\ course_ret' = "False"
                 /\ result' = "False"
                 /\ pc' = "done"
            ELSE IF login_failed(session_cookies')
            THEN /\ login_ret' = "raised"
                 /\ course_ret' = "raised"
                 /\ result' = "raised"
                 /\ pc' = "done"
            ELSE /\ login_ret' = "True"
                 /\ UNCHANGED << course_ret, result >>
                 /\ pc' = "auth_get"
    /\ UNCHANGED << pvars, tvars >>
    /\ UNCHANGED << config, disk_cache, course, calls, cookie_jar,
                    jar_at_call, jar_at_validate, validate_ret >>

(* cookies.get_course_cookies: the auth redirect GET *)

GetCourseCookiesAuth ==
    /\ pc = "auth_get"
    /\ \E st \in Statuses, cs \in AuthSetCookies(course) :
         /\ url' = format(AUTH_URL, course)
         /\ log' = Append(log, "AUTH")
         /\ r' = Response("AUTH", st, cs)
         /\ session_cookies' =
                update(clear_path(session_cookies, CLASS_DOMAIN,
                                  CoursePath(course)), cs)
         /\ IF raise_for_status(st)
               \/ ~has_course_cookies(session_cookies', course)
            THEN /\ course_ret' = "False"
                 /\ result' = "False"
                 /\ pc' = "done"
            ELSE /\ course_ret' = "True"
                 /\ result' = "none"
                 /\ pc' = "dl_write"
    /\ UNCHANGED << pvars, tvars >>
    /\ UNCHANGED << config, disk_cache, course, calls, cookie_jar,
                    jar_at_call, jar_at_validate, validate_ret, login_ret >>

(* CourseraDownloader.get_course_cookies: the cache file is written *)

DlWriteCache ==
    /\ pc = "dl_write"
    /\ disk_cache' = cached_cookies_file(cache_dir, session_cookies, disk_cache)
    /\ result' = "True"
    /\ pc' = "done"
    /\ UNCHANGED << pvars, tvars >>
    /\ UNCHANGED << config, session_cookies, course, calls, log, r, url,
                    cookie_jar,
                    jar_at_call, jar_at_validate, validate_ret, login_ret,
                    course_ret >>

Next ==
    \/ \E crs \in Courses : DlGetCourseCookies(crs)
    \/ ValidateSession
    \/ GetCourseCookiesBegin
    \/ GetLoginCookiesLanding
    \/ GetLoginCookiesPost
    \/ GetCourseCookiesAuth
    \/ DlWriteCache

Spec == Init /\ [][Next]_vars

-----------------------------------------------------------------------------
(* CourseraDownloader.get_response *)

\* The default of the parameter retries.
retries == 3

\* Status codes of the responses to the page requests.
FetchStatuses == {200, 404}

\* What one request meets: session.request raises (no response), or a
\* response with a status code arrives.
FetchOutcomes ==
    { [raised |-> TRUE, status |-> 0] }
        \cup { [raised |-> FALSE, status |-> st] : st \in FetchStatuses }

\* The exception of one pass of the loop of get_response, "none" when the
\* pass reaches the else clause.
error_of(out) ==
    IF out.raised THEN "ConnectionError"
    ELSE IF raise_for_status(out.status) THEN "HTTPError"
    ELSE "none"

\* Mutant of exhausted: the loop makes one pass more.
exhausted_late(n) == n >= retries + 1

\* Mutant of exhausted: the loop makes one pass only.
exhausted_first(n) == n >= 1

\* "for i in range(retries)": the loop ends after the pass that sent the
\* request number retries.
exhausted(n) == n >= retries

\* _get_hidden_resources, "except requests.exceptions.HTTPError as e": the
\* handler logs resource['url'], and resource is not bound when get_page
\* raised, so the handler raises UnboundLocalError; any other exception is
\* not caught.
hidden_handler(e) == IF e = "HTTPError" THEN "UnboundLocalError" ELSE e

\* Mutant of lecture_step: the modal window is used whenever the lecture
\* link has the attribute, whatever the resources.
lecture_step_modal_first(resources, modal) ==
    IF modal THEN "hidden"
    ELSE IF has_mp4(resources) THEN "append"
    ELSE "continue"

\* extract_sections, after the resource links of a list item: the lecture
\* is appended, skipped by "continue", or completed from the modal window.
lecture_step(resources, modal) ==
    IF has_mp4(resources) THEN "append"
    ELSE IF ~modal THEN "continue"
    ELSE "hidden"

\* extract_sections: "assert h3 is not None" fails.
h3_is_none(marker) == ~marker.h3

\* Mutant of a_is_none: a list item without anchor is taken as a lecture.
a_is_none_passed(item) == FALSE

\* extract_sections: "assert lecture_list_item.a is not None" fails.
a_is_none(item) == ~item.a

\* Mutant of append_section: a section whose name is already in the list is
\* left out.
append_section_dedup(secs, sec) ==
    IF \E i \in 1..Len(secs) : secs[i].name = sec.name
    THEN secs ELSE Append(secs, sec)

\* extract_sections: "sections.append(section)".
append_section(secs, sec) == Append(secs, sec)

(* get_sections, entry.  One operation of the downloader is followed at a *)
(* time: the outline is fetched on a downloader that made no other call.   *)

GetSections ==
    /\ ppc = "idle"
    /\ pc = "idle"
    /\ ppc' = "request"
    /\ fetching' = "syllabus"
    /\ attempts' = << >>
    /\ err' = "none"
    /\ UNCHANGED << syllabus, hpage, si, li, sections, section, lecture,
                    resources_before, ret >>
    /\ UNCHANGED << cookies, cache_dir, disk_cache, session_cookies, pc, course,
                    calls, log, r, url, cookie_jar, jar_at_call,
                    jar_at_validate, validate_ret, login_ret, course_ret,
                    result >>
    /\ UNCHANGED tvars
    /\ UNCHANGED hidden_calls

(* get_response: one pass of the loop, and "raise e" after the last one.  *)
(* An exception that leaves get_response leaves get_page; raised for the   *)
(* syllabus it leaves get_sections, raised for a secondary page it meets   *)
(* the handler of _get_hidden_resources.                                   *)

GetResponse ==
    /\ ppc = "request"
    /\ \E out \in FetchOutcomes :
         /\ attempts' = Append(attempts, error_of(out))
         /\ IF error_of(out) = "none"
            THEN /\ err' = "none"
                 /\ ppc' = "response"
                 /\ ret' = ret
                 /\ IF fetching = "hidden"
                    THEN hpage' \in SecondaryPages
                    ELSE hpage' = hpage
            ELSE /\ err' = error_of(out)
                 /\ hpage' = hpage
                 /\ IF exhausted(Len(attempts'))
                    THEN /\ ppc' = "done"
                         /\ ret' = IF fetching = "hidden"
                                   THEN hidden_handler(err') ELSE err'
                    ELSE /\ ppc' = "request"
                         /\ ret' = ret
    /\ UNCHANGED << syllabus, fetching, si, li, sections, section, lecture,
                    resources_before >>
    /\ UNCHANGED << cookies, cache_dir, disk_cache, session_cookies, pc, course,
                    calls, log, r, url, cookie_jar, jar_at_call,
                    jar_at_validate, validate_ret, login_ret, course_ret,
                    result >>
    /\ UNCHANGED tvars
    /\ UNCHANGED hidden_calls

(* extract_sections, entry: the syllabus page arrived *)

ExtractSections ==
    /\ ppc = "response"
    /\ fetching = "syllabus"
    /\ sections' = << >>
    /\ si' = 1
    /\ ppc' = "section"
    /\ attempts' = << >>
    /\ UNCHANGED << syllabus, fetching, err, hpage, li, section, lecture,
                    resources_before, ret >>
    /\ UNCHANGED << cookies, cache_dir, disk_cache, session_cookies, pc, course,
                    calls, log, r, url, cookie_jar, jar_at_call,
                    jar_at_validate, validate_ret, login_ret, course_ret,
                    result >>
    /\ UNCHANGED tvars
    /\ UNCHANGED hidden_calls

(* extract_sections: the head of the loop over section_headers *)

SectionHeader ==
    /\ ppc = "section"
    /\ IF si > Len(syllabus)
       THEN /\ ret' = "sections"
            /\ ppc' = "done"
            /\ UNCHANGED << li, section >>
       ELSE IF h3_is_none(syllabus[si])
       THEN /\ ret' = "AssertionError"
            /\ ppc' = "done"
            /\ UNCHANGED << li, section >>
       ELSE /\ section' = [name |-> syllabus[si].name, lectures |-> << >>]
            /\ li' = 1
            /\ ppc' = "lecture"
            /\ ret' = ret
    /\ UNCHANGED << syllabus, fetching, attempts, err, hpage, si, sections,
                    lecture, resources_before >>
    /\ UNCHANGED << cookies, cache_dir, disk_cache, session_cookies, pc, course,
                    calls, log, r, url, cookie_jar, jar_at_call,
                    jar_at_validate, validate_ret, login_ret, course_ret,
                    result >>
    /\ UNCHANGED tvars
    /\ UNCHANGED hidden_calls

(* extract_sections: one pass of the loop over lecture_list, up to the     *)
(* request of _get_hidden_resources when there is one; after the last list *)
(* item the section is appended.                                           *)

LectureItem ==
    /\ ppc = "lecture"
    /\ hpage' = NoPage
    /\ IF li > Len(syllabus[si].items)
       THEN /\ sections' = append_section(sections, section)
            /\ si' = si + 1
            /\ ppc' = "section"
            /\ resources_before' = << >>
            /\ UNCHANGED << li, section, lecture, fetching, ret,
                            hidden_calls >>
       ELSE LET item == syllabus[si].items[li]
                lec == [name |-> item.name,
                        resources |-> direct_resources(item.links)]
                step == lecture_step(lec.resources, item.modal)
            IN  IF a_is_none(item)
                THEN /\ ret' = "AssertionError"
                     /\ ppc' = "done"
                     /\ resources_before' = << >>
                     /\ UNCHANGED << si, li, sections, section, lecture,
                                     fetching, hidden_calls >>
                ELSE /\ lecture' = lec
                     /\ ret' = ret
                     /\ UNCHANGED << si, sections >>
                     /\ IF step = "hidden"
                        THEN /\ ppc' = "request"
                             /\ fetching' = "hidden"
                             /\ hidden_calls' =
                                  Append(hidden_calls, << si, li >>)
                             /\ resources_before' = lec.resources
                             /\ UNCHANGED << li, section >>
                        ELSE /\ ppc' = "lecture"
                             /\ li' = li + 1
                             /\ hidden_calls' = hidden_calls
                             /\ resources_before' = << >>
                             /\ fetching' = fetching
                             /\ section' =
                                  IF step = "append"
                                  THEN [section EXCEPT
                                            !.lectures = Append(@, lec)]
                                  ELSE section
    /\ attempts' = << >>
    /\ UNCHANGED << syllabus, err >>
    /\ UNCHANGED << cookies, cache_dir, disk_cache, session_cookies, pc, course,
                    calls, log, r, url, cookie_jar, jar_at_call,
                    jar_at_validate, validate_ret, login_ret, course_ret,
                    result >>
    /\ UNCHANGED tvars

(* _get_hidden_resources: the secondary page arrived; the lecture is       *)
(* appended to the section afterwards.                                     *)

HiddenResponse ==
    /\ ppc = "response"
    /\ fetching = "hidden"
    /\ lecture' = [lecture EXCEPT
                       !.resources = @ \o hidden_resources(lecture, hpage)]
    /\ section' = [section EXCEPT !.lectures = Append(@, lecture')]
    /\ li' = li + 1
    /\ ppc' = "lecture"
    /\ UNCHANGED << syllabus, fetching, attempts, err, hpage, si, sections,
                    resources_before, ret >>
    /\ UNCHANGED << cookies, cache_dir, disk_cache, session_cookies, pc, course,
                    calls, log, r, url, cookie_jar, jar_at_call,
                    jar_at_validate, validate_ret, login_ret, course_ret,
                    result >>
    /\ UNCHANGED tvars
    /\ UNCHANGED hidden_calls

NextParse ==
    \/ GetSections
    \/ GetResponse
    \/ ExtractSections
    \/ SectionHeader
    \/ LectureItem
    \/ HiddenResponse

\* A downloader without cookie file and cache directory, and a service that
\* serves one of the syllabus pages.
InitParse ==
    /\ cookies = NoFile
    /\ cache_dir = FALSE
    /\ disk_cache = NoFile
    /\ DownloaderIdle
    /\ syllabus \in Pages
    /\ ParserIdle
    /\ tfile = NoFile
    /\ NoDirectCall

SpecParse == InitParse /\ [][NextParse]_vars

-----------------------------------------------------------------------------
(* Direct calls of the functions of cookies.py, as the tests make them *)

\* load(tfile)
CallLoad ==
    /\ tpc = "idle"
    /\ tpc' = "load"
    /\ tret' = load_error(tfile)
    /\ tjar' = IF tret' = "none" THEN load(tfile) ELSE {}
    /\ UNCHANGED << tfile, tcourse, tstatus, tprev, tprevret, tsaved >>
    /\ UNCHANGED << avars, pvars >>

\* read(tfile)
CallRead ==
    /\ tpc = "idle"
    /\ tpc' = "read"
    /\ tret' = read_error(tfile)
    /\ tjar' = IF tret' = "none" THEN read(tfile) ELSE {}
    /\ UNCHANGED << tfile, tcourse, tstatus, tprev, tprevret, tsaved >>
    /\ UNCHANGED << avars, pvars >>

\* read_for_course(tfile, crs)
CallReadForCourse(crs) ==
    /\ tpc = "idle"
    /\ tpc' = "read_for_course"
    /\ tcourse' = crs
    /\ tret' = load_error(tfile)
    /\ tjar' = IF tret' = "none" THEN read_for_course(tfile, crs) ELSE {}
    /\ UNCHANGED << tfile, tstatus, tprev, tprevret, tsaved >>
    /\ UNCHANGED << avars, pvars >>

\* write(tjar, ...), called with the jar that load returned
CallWrite ==
    /\ tpc = "load"
    /\ tret = "none"
    /\ tpc' = "write"
    /\ tsaved' = write(tjar)
    /\ UNCHANGED << tfile, tcourse, tstatus, tjar, tret, tprev, tprevret >>
    /\ UNCHANGED << avars, pvars >>

\* load of the file that write has written
CallLoadSaved ==
    /\ tpc = "write"
    /\ tpc' = "reload"
    /\ tprev' = tjar
    /\ tprevret' = tret
    /\ tret' = load_error(tsaved)
    /\ tjar' = IF tret' = "none" THEN load(tsaved) ELSE {}
    /\ UNCHANGED << tfile, tcourse, tstatus, tsaved >>
    /\ UNCHANGED << avars, pvars >>

\* validate_session(session, crs) on a session whose jar was read from
\* tfile; st is the status of the response to the HEAD request
CallValidate(crs, st) ==
    /\ tpc = "read"
    /\ tret = "none"
    /\ tpc' = "validate_session"
    /\ tcourse' = crs
    /\ tstatus' = st
    /\ tprev' = tjar
    /\ tprevret' = tret
    /\ tret' = validate_session_ret(tjar, crs, st)
    /\ tjar' = validate_session_jar(tjar, crs, st)
    /\ UNCHANGED << tfile, tsaved >>
    /\ UNCHANGED << avars, pvars >>

\* validate_session once more, for the same course and with the same response
CallValidateAgain ==
    /\ tpc = "validate_session"
    /\ tpc' = "validate_session again"
    /\ tprev' = tjar
    /\ tprevret' = tret
    /\ tret' = validate_session_ret(tjar, tcourse, tstatus)
    /\ tjar' = validate_session_jar(tjar, tcourse, tstatus)
    /\ UNCHANGED << tfile, tcourse, tstatus, tsaved >>
    /\ UNCHANGED << avars, pvars >>

NextCookies ==
    \/ CallLoad
    \/ CallRead
    \/ \E crs \in Courses : CallReadForCourse(crs)
    \/ CallWrite
    \/ CallLoadSaved
    \/ \E crs \in Courses, st \in Statuses : CallValidate(crs, st)
    \/ CallValidateAgain

\* A downloader that makes no call, and any file for the direct calls.
InitCookies ==
    /\ cookies = NoFile
    /\ cache_dir = FALSE
    /\ disk_cache = NoFile
    /\ DownloaderIdle
    /\ syllabus = << >>
    /\ ParserIdle
    /\ tfile \in IoFiles
    /\ NoDirectCall

SpecCookies == InitCookies /\ [][NextCookies]_vars

-----------------------------------------------------------------------------
(* Every HTTP operation of the downloader *)

\* A syllabus page of one section and one lecture, whose video is behind the
\* modal window.
PreviewPage ==
    << Marker(TRUE, "Week 1", << Item(TRUE, "Preview", << PdfLink >>, TRUE) >>) >>

\* A cache file that holds the cookies of a session of course c1.
CachedSession == FileOf(TRUE, {1, 3})

\* A downloader with credentials (no cookie file), without cache directory,
\* with an empty one, or with one that holds a session.
InitHttp ==
    /\ cookies = NoFile
    /\ cache_dir \in BOOLEAN
    /\ disk_cache \in {NoFile, CachedSession}
    /\ (disk_cache.exists => cache_dir)
    /\ DownloaderIdle
    /\ syllabus = PreviewPage
    /\ ParserIdle
    /\ tfile = NoFile
    /\ NoDirectCall

NextHttp ==
    \/ Next
    \/ NextParse

SpecHttp == InitHttp /\ [][NextHttp]_vars

-----------------------------------------------------------------------------
(* Properties *)

IsCourseCookie(c, crs) ==
    c.domain = "class.coursera.org" /\ c.path = "/" \o crs

IsCourseToken(c, crs) == IsCourseCookie(c, crs) /\ c.name = "csrf_token"

Is2xx(st) == st >= 200 /\ st <= 299

\* The host of an absolute URL: what follows the scheme.
host(t) == IF scheme(t) # "" /\ Len(t) >= 2 THEN t[2] ELSE ""

\* How many times the request op was sent by the running / last call.
Count(op) == Cardinality({ i \in 1..Len(log) : log[i] = op })

\* _get_hidden_resources has just returned to extract_sections.
JustResolved == ppc = "lecture" /\ fetching = "hidden" /\ attempts # << >>

\* The language code of the i-th track of a secondary page of the model.
LangAt(i) == IF i % 2 = 1 THEN "en" ELSE "fr"

\* get_response gave up: the exception left get_page.
FetchFailed == ppc = "done" /\ ret \notin {"sections", "AssertionError"}

\* C1: read_for_course(file, c) returns exactly the cookies of load(file)
\* whose domain is .coursera.org, or whose domain is class.coursera.org and
\* whose path is /c; every other cookie of load(file) is absent.
C1_ReadForCourseFilter ==
    (cookies.exists /\ calls > 0) =>
        \A c \in load(cookies) \cup cookie_jar :
            c \in cookie_jar <=>
                /\ c \in load(cookies)
                /\ \/ c.domain = ".coursera.org"
                   \/ IsCourseCookie(c, course)

C1_Witness ==
    /\ cookies.exists
    /\ calls > 0
    /\ \E c \in cookie_jar : IsCourseCookie(c, course)
    /\ \E c \in load(cookies) \ cookie_jar : c.domain = "class.coursera.org"

C3_CachedSessionSkipsLogin ==
    (~cookies.exists /\ validate_ret = "True") =>
        /\ pc = "done"
        /\ result = "True"
        /\ log = << "HEAD" >>

C3_Witness ==
    /\ cache_dir
    /\ validate_ret = "True"
    /\ result = "True"
    /\ cookie_jar # {}

\* C4 as claimed: with no cookie file, whenever the cached jar fails
\* validate_session, the landing page fetch, the credentials POST and the
\* auth redirect GET are all sent before get_course_cookies returns True.
C4_Original ==
    (~cookies.exists /\ validate_ret = "False" /\ result = "True") =>
        (Sent("LANDING") /\ Sent("POST") /\ Sent("AUTH"))

\* C4 as amended: with no cookie file, whenever the cached jar fails
\* validate_session and get_course_cookies returns True, the auth redirect
\* GET was sent; the landing page fetch and the credentials POST were sent
\* before it, except when validation failed for the missing course cookie
\* and the jar held a CAUTH cookie of domain .coursera.org: then the auth
\* redirect GET is the only request.
C4_ReauthAfterFailedValidation ==
    (~cookies.exists /\ validate_ret = "False" /\ result = "True") =>
        IF Sent("HEAD")
        THEN log = << "HEAD", "LANDING", "POST", "AUTH" >>
        ELSE IF \E c \in jar_at_validate :
                    c.name = "CAUTH" /\ c.domain = ".coursera.org"
        THEN log = << "AUTH" >>
        ELSE log = << "LANDING", "POST", "AUTH" >>

C4_Witness ==
    /\ ~cookies.exists
    /\ validate_ret = "False"
    /\ result = "True"
    /\ log = << "AUTH" >>

\* C5: validate_session returns True if and only if the jar holds the
\* csrf_token cookie of class.coursera.org and path /course and the HEAD
\* request returns status 200; when that cookie is missing it returns False
\* and sends no request.
C5_ValidateSession ==
    LET held == \E c \in jar_at_validate : IsCourseToken(c, course)
    IN  /\ validate_ret = "True" =>
              (held /\ log = << "HEAD" >> /\ r.op = "HEAD" /\ r.status = 200)
        /\ (validate_ret = "False" /\ pc = "get_course_cookies") =>
              \/ (~held /\ log = << >>)
              \/ (held /\ log = << "HEAD" >> /\ r.op = "HEAD"
                       /\ r.status # 200)
        /\ (validate_ret # "none" /\ ~held) =>
              (validate_ret = "False" /\ ~Sent("HEAD"))

C5_Witness ==
    /\ validate_ret = "True"
    /\ r.op = "HEAD"
    /\ r.status = 200
    /\ \E c \in jar_at_validate : IsCourseToken(c, course)

C7_Original ==
    /\ (r.op = "LANDING"
        /\ (~Is2xx(r.status) \/ ~\E c \in r.cookies : c.name = "csrf_token"))
       => (login_ret = "False" /\ pc = "done" /\ ~Sent("POST"))
    /\ pc = "login_post" =>
          /\ r.op = "LANDING"
          /\ Is2xx(r.status)
          /\ \E c \in r.cookies : c.name = "csrf_token"

\* C7 as amended: get_login_cookies returns False and sends no POST whenever
\* the landing page response has an HTTP error status (400..599) or carries
\* no csrf_token cookie; the POST is sent only after a response whose status
\* is no HTTP error and that carried the token.
C7_LandingGuardsPost ==
    /\ (r.op = "LANDING"
        /\ (r.status >= 400 \/ ~\E c \in r.cookies : c.name = "csrf_token"))
       => (login_ret = "False" /\ pc = "done" /\ ~Sent("POST"))
    /\ pc = "login_post" =>
          /\ r.op = "LANDING"
          /\ r.status < 400
          /\ \E c \in r.cookies : c.name = "csrf_token"
    /\ \A i \in 1..Len(log) :
          log[i] = "POST" => (i > 1 /\ log[i - 1] = "LANDING")

C7_Witness ==
    /\ pc = "login_post"
    /\ r.op = "LANDING"
    /\ r.status = 302

\* C8 as claimed: when the login POST returns a 2xx status and the session
\* holds no CAUTH cookie afterwards, get_login_cookies returns False and
\* cookies.get_course_cookies returns False without the auth redirect GET.
C8_MissingCauthReturnsFalse ==
    (r.op = "POST" /\ Is2xx(r.status)
     /\ ~\E c \in session_cookies : c.name = "CAUTH")
    => (login_ret = "False" /\ course_ret = "False" /\ ~Sent("AUTH"))

\* C9 as claimed: get_login_cookies returns True only if the response to
\* its own login POST set a CAUTH cookie; a CAUTH cookie already in the jar,
\* under any domain, does not make it return True.
C9_CauthFromThisLogin ==
    (login_ret = "True" /\ r.op = "POST") =>
        \E c \in r.cookies : c.name = "CAUTH"

\* C10: cookies.get_course_cookies returns True only if the auth redirect
\* GET returned without HTTP error and the jar then holds the csrf_token
\* cookie of class.coursera.org and path /course; the cookies of that domain
\* and path held before are cleared before the GET, so every such cookie in
\* the jar was set by the response of this call.
C10_CourseCookieFromThisCall ==
    course_ret = "True" =>
        /\ r.op = "AUTH"
        /\ r.status < 400
        /\ \E c \in session_cookies : IsCourseToken(c, course)
        /\ \A c \in session_cookies : IsCourseCookie(c, course) => c \in r.cookies

C10_Witness ==
    /\ course_ret = "True"
    /\ \E c \in jar_at_validate :
           IsCourseToken(c, course) /\ c \notin session_cookies

\* C11 as claimed: for every course slug c the auth redirect GET goes to
\* https://class.coursera.org/<c>/auth/auth_redirector?type=login&subtype=normal
\* and the landing-page and class-page URLs contain the path segment /<c>;
\* the URL requested for one slug is never the URL requested for another.
C11_UrlNamesCourse ==
    /\ r.op = "AUTH" =>
          /\ url = << "https://", "class.coursera.org", "/", course,
                      "/auth/auth_redirector", "?type=login&subtype=normal" >>
          /\ \A c \in Courses \ {course} : url # format(AUTH_URL, c)
    /\ r.op \in {"LANDING", "HEAD"} =>
          \E i \in 1..(Len(url) - 1) : url[i] = "/" /\ url[i + 1] = course

\* C12 as claimed: every outbound HTTP operation (landing-page fetch, login
\* POST, auth redirect GET, syllabus fetch, secondary page fetch) is attempted
\* again after a failed attempt, up to 3 attempts, before the enclosing
\* operation fails; none fails after a single failed attempt.
C12_Original ==
    /\ (pc = "done" /\ r.op \in {"LANDING", "POST", "AUTH"}
        /\ r.status >= 400) => Count(r.op) = 3
    /\ FetchFailed => Len(attempts) = 3

\* C12: the syllabus fetch and the secondary page fetch go through
\* get_response: a failed attempt is followed by another one, and the fetch
\* fails only after 3 failed attempts.  The landing-page fetch, the login
\* POST and the auth redirect GET are sent once per call, and an error status
\* of their response fails the call at once.
C12_RetriesOnlyForPages ==
    /\ \A op \in {"LANDING", "POST", "AUTH"} : Count(op) <= 1
    /\ (r.op \in {"LANDING", "POST", "AUTH"} /\ r.status >= 400) =>
          (pc = "done" /\ result = "False")
    /\ FetchFailed =>
          /\ Len(attempts) = 3
          /\ \A i \in 1..3 : attempts[i] # "none"
    /\ (attempts # << >> /\ Len(attempts) < 3
        /\ attempts[Len(attempts)] # "none") => ppc = "request"

C12_Witness ==
    /\ FetchFailed
    /\ fetching = "hidden"
    /\ Len(attempts) = 3

\* C13: get_response with the default retries sends at most 3 requests; it
\* sends no request after the first attempt that neither raises nor has an
\* error status, and returns that response; when all 3 attempts fail it
\* raises the error of the last attempt.
C13_GetResponseRetries ==
    /\ Len(attempts) <= 3
    /\ \A i \in 1..(Len(attempts) - 1) : attempts[i] # "none"
    /\ ppc = "response" => attempts[Len(attempts)] = "none"
    /\ (ppc = "done" /\ ret \notin {"sections", "AssertionError"}) =>
          /\ Len(attempts) = 3
          /\ attempts[3] \in {"HTTPError", "ConnectionError"}
          /\ err = attempts[3]
          /\ fetching = "syllabus" => ret = attempts[3]

C13_Witness ==
    /\ ppc = "done"
    /\ fetching = "syllabus"
    /\ attempts = << "HTTPError", "HTTPError", "ConnectionError" >>
    /\ ret = "ConnectionError"

\* C14: extract_sections returns exactly one section per section header
\* marker of the page, in document order, without sorting, merging or
\* deduplication: two markers with the same heading give two sections.
C14_OneSectionPerMarker ==
    ret = "sections" =>
        /\ Len(sections) = Len(syllabus)
        /\ \A i \in 1..Len(syllabus) : sections[i].name = syllabus[i].name

C14_Witness ==
    /\ ret = "sections"
    /\ Len(sections) = 2
    /\ syllabus[1].name = "Week 2"
    /\ syllabus[2].name = "Week 2"

\* C15 as claimed: every lecture list item of a section yields exactly one
\* lecture of that section, in document order; a lecture without mp4
\* resource whose lecture link has no data-modal-iframe attribute is present
\* too, with its other resources.
C15_OneLecturePerItem ==
    ret = "sections" =>
        \A i \in 1..Len(syllabus) :
            /\ Len(sections[i].lectures) = Len(syllabus[i].items)
            /\ \A j \in 1..Len(syllabus[i].items) :
                   sections[i].lectures[j].name = syllabus[i].items[j].name

\* C16 as claimed: a resource link without the raw source video marker whose
\* derived extension is empty is kept if and only if its host is
\* cloudfront.net; a link with an extension is kept whatever its host.
C16_ExtensionOrCdnHost ==
    (Len(syllabus) = 1 /\ Len(syllabus[1].items) = 1 /\ lecture # NoLecture) =>
        LET links == syllabus[1].items[1].links
        IN  \A k \in 1..Len(links) :
              (~links[k].none /\ strip(links[k].text) # << >>
               /\ ~contains(links[k].text, "source_videos")) =>
                 LET u == clean_url(links[k]).text
                     e == ext_of(resource_filename_from_url(u))
                 IN  (\E j \in 1..Len(lecture.resources) :
                          lecture.resources[j].url = u)
                     <=> (e # "" \/ host(u) = "cloudfront.net")

\* C17: no resource collected from the resource links of a lecture has a url
\* that contains source_videos, whatever the href, the extension and the
\* host, also when the href begins with the marker.
C17_NoSourceVideos ==
    /\ \A j \in 1..Len(lecture.resources) :
           \A k \in 1..Len(lecture.resources[j].url) :
               lecture.resources[j].url[k] # "source_videos"
    /\ \A l \in 1..Len(section.lectures) :
           \A j \in 1..Len(section.lectures[l].resources) :
               \A k \in 1..Len(section.lectures[l].resources[j].url) :
                   section.lectures[l].resources[j].url[k] # "source_videos"

C17_Witness ==
    /\ Len(syllabus) = 1
    /\ Len(syllabus[1].items) = 1
    /\ lecture.name = "Lecture"
    /\ lecture.resources # << >>
    /\ \E k \in 1..Len(syllabus[1].items[1].links) :
           /\ ~syllabus[1].items[1].links[k].none
           /\ syllabus[1].items[1].links[k].text # << >>
           /\ syllabus[1].items[1].links[k].text[1] = "source_videos"

\* C18: when the secondary page has no source element of type video/mp4,
\* _get_hidden_resources returns normally and leaves the resources of the
\* lecture as they were, also when the page has subtitle tracks.
C18_NoVideoNoChange ==
    (JustResolved /\ ~hpage.hasvideo) =>
        (lecture.resources = resources_before /\ ret = "none")

C18_Witness ==
    /\ JustResolved
    /\ ~hpage.hasvideo
    /\ Len(hpage.tracks) = 2
    /\ resources_before # << >>
    /\ lecture.resources = resources_before

\* C19: when the secondary page has a video/mp4 source element and k
\* subtitle tracks, _get_hidden_resources appends exactly k+1 resources after
\* the existing ones, which stay: first one with filename video.mp4 and ext
\* mp4, then for each track in document order one named Subtitles <lang> with
\* filename Subtitles <lang>.srt and ext srt.
C19_VideoThenSubtitles ==
    (JustResolved /\ hpage.hasvideo) =>
        LET n == Len(resources_before)
            k == Len(hpage.tracks)
        IN  /\ Len(lecture.resources) = n + k + 1
            /\ SubSeq(lecture.resources, 1, n) = resources_before
            /\ lecture.resources[n + 1].filename = << "video.mp4" >>
            /\ lecture.resources[n + 1].ext = "mp4"
            /\ \A i \in 1..k :
                 /\ lecture.resources[n + 1 + i].name =
                        << "Subtitles ", LangAt(i) >>
                 /\ lecture.resources[n + 1 + i].filename =
                        << "Subtitles ", LangAt(i), ".srt" >>
                 /\ lecture.resources[n + 1 + i].ext = "srt"

C19_Witness ==
    /\ JustResolved
    /\ hpage.hasvideo
    /\ Len(hpage.tracks) = 2
    /\ resources_before # << >>
    /\ Len(lecture.resources) = Len(resources_before) + 3

\* C20 as claimed: when the fetch of the secondary page fails with an HTTP
\* error after the retries, _get_hidden_resources does not raise: the
\* resources of the lecture stay as they were and extract_sections goes on
\* with the following lectures and sections.
C20_HttpErrorCaught ==
    (fetching = "hidden" /\ Len(attempts) = 3 /\ attempts[3] = "HTTPError") =>
        /\ ret = "none"
        /\ ppc # "done"
        /\ lecture.resources = resources_before

\* C21 as claimed: every resource of the tree built by extract_sections,
\* taken from a resource link or appended by _get_hidden_resources, has a
\* non-empty url that begins with a scheme; an element whose href or src is
\* missing, empty or white space never produces a resource.
C21_UrlHasScheme ==
    /\ \A j \in 1..Len(lecture.resources) :
           /\ lecture.resources[j].url # << >>
           /\ lecture.resources[j].url[1] \in {"http://", "https://"}
    /\ (JustResolved /\ hpage.hasvideo /\ hpage.src = Str(<< " " >>)) =>
           lecture.resources = resources_before

\* C22: when a section header marker has no h3 heading after it, or a
\* lecture list item has no anchor, extract_sections raises an error and
\* returns no section list: the sections and lectures parsed before the
\* offending element are not returned.
C22_NoPartialTree ==
    /\ ret = "sections" =>
          \A i \in 1..Len(syllabus) :
              /\ syllabus[i].h3
              /\ \A j \in 1..Len(syllabus[i].items) : syllabus[i].items[j].a
    /\ ret = "AssertionError" =>
          /\ ppc = "done"
          /\ \/ ~syllabus[si].h3
             \/ ~syllabus[si].items[li].a

C22_Witness ==
    /\ ret = "AssertionError"
    /\ ppc = "done"
    /\ Len(sections) = 1
    /\ Len(sections[1].lectures) = 1
    /\ ~syllabus[2].h3

\* The lines of the file of the direct call that _really_load reads as
\* cookie lines: those after the line taken as the magic line.
ReadLines == { i \in 2..Len(tfile.lines) : tfile.lines[i].kind = "cookie" }

\* C23 as claimed: load performs no expiry filtering: a cookie line whose
\* expiration is in the past is loaded as a record, and read_for_course
\* returns it when its domain and path match the course filter.
C23_Original ==
    /\ (tpc = "load" /\ tret = "none") =>
          \A i \in ReadLines :
              tfile.lines[i].expires = "past" =>
                  LineToCookie(tfile.lines[i]) \in tjar
    /\ (tpc = "read_for_course" /\ tret = "none") =>
          \A i \in ReadLines :
              (/\ tfile.lines[i].expires = "past"
               /\ cookies_filter(LineToCookie(tfile.lines[i]),
                                 CoursePath(tcourse))) =>
                  LineToCookie(tfile.lines[i]) \in tjar

\* C23: load leaves out the cookie lines whose expiration is in the past:
\* the jar it returns holds the lines with an expiration in the future and
\* no expired cookie, and read_for_course returns no expired cookie either.
C23_ExpiredNotLoaded ==
    /\ (tpc = "load" /\ tret = "none") =>
          /\ \A c \in tjar : c.expires # "past"
          /\ \A i \in ReadLines :
                 tfile.lines[i].expires = "future" =>
                     LineToCookie(tfile.lines[i]) \in tjar
    /\ (tpc = "read_for_course" /\ tret = "none") =>
          /\ \A c \in tjar : c.expires # "past"
          /\ \A i \in ReadLines :
                 (/\ tfile.lines[i].expires = "future"
                  /\ cookies_filter(LineToCookie(tfile.lines[i]),
                                    CoursePath(tcourse))) =>
                     LineToCookie(tfile.lines[i]) \in tjar

C23_Witness ==
    /\ tpc = "read_for_course"
    /\ tret = "none"
    /\ tjar # {}
    /\ \E i \in ReadLines :
           /\ tfile.lines[i].expires = "past"
           /\ cookies_filter(LineToCookie(tfile.lines[i]),
                             CoursePath(tcourse))

\* The (domain, path, name, value) records of a jar.
Records(jar) == { << c.domain, c.path, c.name, c.value >> : c \in jar }

\* C24: writing the jar that load returned for a well-formed cookie file
\* and loading the written file gives a jar with the same (domain, path,
\* name, value) records: none is lost, added or changed.
C24_RoundTrip ==
    tpc = "reload" =>
        /\ tret = "none"
        /\ Records(tjar) = Records(tprev)

C24_Witness ==
    /\ tpc = "reload"
    /\ tfile \in Files
    /\ Cardinality(Records(tprev)) = 2
    /\ Records(tjar) = Records(tprev)

\* C25 as claimed: read turns only a missing file into an empty jar; for a
\* file that cannot be opened or cannot be parsed it raises an error.
C25_Original ==
    tpc = "read" =>
        /\ ~tfile.exists => (tret = "none" /\ tjar = {})
        /\ load_error(tfile) \in {"IOError: permission denied", "LoadError"}
               => tret # "none"

\* C25: read never raises for a file it cannot load: a missing file, a file
\* that cannot be opened and a file that cannot be parsed all give an empty
\* jar, as the errors of all three are IOErrors, which read catches.
C25_ReadSwallowsIOError ==
    tpc = "read" =>
        /\ tret = "none"
        /\ load_error(tfile) # "none" => tjar = {}
        /\ load_error(tfile) = "none" => tjar = load(tfile)

C25_Witness ==
    /\ tpc = "read"
    /\ load_error(tfile) = "LoadError"
    /\ tret = "none"
    /\ tjar = {}

\* The list item j of section i is a lecture without retained direct mp4
\* resource.
NoDirectMp4(i, j) ==
    /\ syllabus[i].items[j].a
    /\ ~has_mp4(direct_resources(syllabus[i].items[j].links))

\* The list items of the syllabus page, as << section, item >> pairs.
ItemsOfPage ==
    UNION { { << i, j >> : j \in 1..Len(syllabus[i].items) } :
                i \in 1..Len(syllabus) }

\* p comes before q in document order.
Before(p, q) == p[1] < q[1] \/ (p[1] = q[1] /\ p[2] < q[2])

\* The list item p is a lecture for which the modal window is due: no
\* retained direct mp4 resource, and a lecture link with data-modal-iframe.
HiddenDue(p) ==
    /\ NoDirectMp4(p[1], p[2])
    /\ syllabus[p[1]].items[p[2]].modal

\* C26: _get_hidden_resources is called for a lecture exactly when none of
\* its retained direct resources has ext mp4 and its lecture link has the
\* data-modal-iframe attribute; the calls are made in document order, at
\* most one per lecture, so they are at most as many as the lectures
\* without direct mp4.
C26_HiddenCallsIffNoMp4AndModal ==
    /\ (fetching = "hidden" /\ ppc \in {"request", "response"}) =>
           /\ hidden_calls # << >>
           /\ hidden_calls[Len(hidden_calls)] = << si, li >>
    /\ (fetching = "hidden" /\ ppc = "request" /\ attempts = << >>) =>
           /\ HiddenDue(<< si, li >>)
           /\ \A k \in 1..(Len(hidden_calls) - 1) :
                  Before(hidden_calls[k], << si, li >>)
    /\ (ppc = "lecture" /\ li > 1) =>
           (HiddenDue(<< si, li - 1 >>) <=>
                /\ hidden_calls # << >>
                /\ hidden_calls[Len(hidden_calls)] = << si, li - 1 >>)
    /\ ret = "sections" =>
           /\ { hidden_calls[k] : k \in 1..Len(hidden_calls) } =
                  { p \in ItemsOfPage : HiddenDue(p) }
           /\ Len(hidden_calls) =
                  Cardinality({ p \in ItemsOfPage : HiddenDue(p) })
           /\ Len(hidden_calls) <=
                  Cardinality({ p \in ItemsOfPage : NoDirectMp4(p[1], p[2]) })

C26_Witness ==
    /\ ret = "sections"
    /\ Len(hidden_calls) = 1
    /\ Cardinality(ItemsOfPage) = 2
    /\ \E p \in ItemsOfPage : /\ ~NoDirectMp4(p[1], p[2])
                             /\ syllabus[p[1]].items[p[2]].modal
    /\ Cardinality({ p \in ItemsOfPage : NoDirectMp4(p[1], p[2]) }) = 1

\* C27: the cache file changes only in the step of
\* CourseraDownloader.get_course_cookies that follows a True of
\* cookies.get_course_cookies in the same call, with a cache directory and
\* without cookie file; it stays as it is when the cached session
\* validated, when authentication failed, when a cookie file was supplied
\* and when no cache directory is configured.
C27_CacheWrittenOnlyAfterLogin ==
    [][ /\ disk_cache' # disk_cache =>
             /\ pc = "dl_write"
             /\ course_ret = "True"
             /\ validate_ret # "True"
             /\ cache_dir
             /\ ~uses_cookies_file(cookies)
             /\ disk_cache' = write(session_cookies)
             /\ result' = "True"
        /\ (pc' = "done" /\ pc # "done" /\ result' = "False") =>
               disk_cache' = disk_cache
      ]_vars

C27_Witness ==
    /\ pc = "done"
    /\ result = "True"
    /\ course_ret = "True"
    /\ cache_dir
    /\ cookie_jar = {}
    /\ disk_cache = write(session_cookies)
    /\ Len(disk_cache.lines) >= 2

\* The file f without its header line.
WithoutHeader(f) ==
    IF f.lines # << >> /\ f.lines[1].kind = "header"
    THEN [f EXCEPT !.lines = Tail(@)]
    ELSE f

\* C28 as claimed: load on a file without header line returns a record for
\* every well-formed cookie line, the first one included, and on a file
\* that begins with the header line the same records as on the same file
\* without that line.  (Lines that are not expired: see C23.)
C28_HeaderSynthesized ==
    (tpc = "load" /\ tret = "none") =>
        /\ \A i \in 1..Len(tfile.lines) :
               (/\ tfile.lines[i].kind = "cookie"
                /\ tfile.lines[i].expires = "future") =>
                   LineToCookie(tfile.lines[i]) \in tjar
        /\ tjar = load(WithoutHeader(tfile))

\* C29: validate_session called twice in a row for the same course, with
\* the same response to its request, returns the same result both times,
\* and the second call leaves the jar as the first call left it.
C29_ValidateIdempotent ==
    tpc = "validate_session again" =>
        /\ tret = tprevret
        /\ tjar = tprev

C29_Witness ==
    /\ tpc = "validate_session again"
    /\ tstatus = 404
    /\ has_course_cookies(tjar, tcourse)
    /\ tret = "False"
    /\ tprevret = "False"
    /\ read(tfile) # tprev
    /\ tjar = tprev

\* The cookies of jar that belong to class.coursera.org and to the path of
\* a course other than crs.
OtherCourseCookies(jar, crs) ==
    { c \in jar : /\ c.domain = CLASS_DOMAIN
                  /\ \E o \in Courses \ {crs} : c.path = CoursePath(o) }

\* C30 as claimed: after CourseraDownloader.get_course_cookies(c) returned
\* True, the session jar holds no class.coursera.org cookie of another
\* course's path.
C30_Original ==
    (pc = "done" /\ result = "True") =>
        OtherCourseCookies(session_cookies, course) = {}

\* C30: after CourseraDownloader.get_course_cookies(c) returned True, the
\* class.coursera.org cookies of other courses' paths in the session jar
\* are those the jar held before the call and those read from the cache
\* file, all of which are kept; the call's own responses add none, and a
\* supplied cookie file adds none.
C30_OtherCoursesKeptNotAdded ==
    (pc = "done" /\ result = "True") =>
        /\ OtherCourseCookies(session_cookies, course) =
               OtherCourseCookies(update(jar_at_call, cookie_jar), course)
        /\ uses_cookies_file(cookies) =>
               OtherCourseCookies(cookie_jar, course) = {}

C30_Witness ==
    /\ pc = "done"
    /\ result = "True"
    /\ cache_dir
    /\ course_ret = "True"
    /\ OtherCourseCookies(jar_at_call, course) = {}
    /\ OtherCourseCookies(cookie_jar, course) # {}
    /\ OtherCourseCookies(session_cookies, course) # {}

=============================================================================
